---------------------------- MODULE Spec2Model ----------------------------
(***************************************************************************)
(* chicDifferentialTest (hicexplorer/chicDifferentialTest.py): the reader, *)
(* the two statistical strategies, the partition loop of main and the      *)
(* report writer, as a sequential state machine.                           *)
(*                                                                         *)
(* Representation.                                                         *)
(*  - A text line is the sequence of its tab-separated fields after        *)
(*    strip().split('\t').  A field is a pair: <<"num", v>> is a field     *)
(*    float() parses, holding the value v in TENTHS (12 is 1.2);           *)
(*    <<"txt", k>> is a field float() rejects.                             *)
(*  - alpha is the rational num/den.                                       *)
(*  - A Python str that the code splits or concatenates (outFileName, the  *)
(*    output paths) is the sequence of its characters.                     *)
(*  - True / False / None are the strings "True", "False", "None".         *)
(***************************************************************************)
EXTENDS Integers, Sequences, FiniteSets, TLC

VARIABLES
    statisticTest,      \* args.statisticTest
    alpha,              \* args.alpha
    outFileName,        \* args.outFileName
    fileA, fileB,       \* the two input files' contents (args.interactionFile)
    pc,                 \* position in main
    err,                \* the uncaught exception that ended main, or "none"
    header1, line_content1, data1,
    header2, line_content2, data2,
    test_result,
    zero_values_counter,
    log_info,           \* the log.info messages emitted (the counts they carry)
    tested,             \* the tables handed to scipy, in call order
    rejected_h0, non_rejected_h0, not_tested,
    outPaths,           \* <<outRejectedH0, outAcceptedH0, outNoTest>>
    fs                  \* output files created so far: a set of [path, content]

vars == <<statisticTest, alpha, outFileName, fileA, fileB, pc, err,
          header1, line_content1, data1, header2, line_content2, data2,
          test_result, zero_values_counter, log_info, tested,
          rejected_h0, non_rejected_h0, not_tested, outPaths, fs>>

-----------------------------------------------------------------------------
(* Bounds of the model.                                                    *)

\* Lines after the header line in an input file.
MaxLines == 2
\* Rows in each list handed directly to the decision engine (SpecTest).
MaxRows == 2
\* Characters in outFileName (SpecPaths).
MaxNameLen == 4

-----------------------------------------------------------------------------
(* Record Reader: readInteractionFile                                      *)

data_selector_viewpoint == 9
data_selector_target == 12

None == [kind |-> "None"]

\* float(field): the value, or ValueError for a field that is no number.
IsNumeric(field) == field[1] = "num"

ParseFloat(field) == field[2]

\* Variant: a reader that also passes over a row too short to hold field 12.
IsSkippedAlsoShortRows(_line) == Len(_line) <= data_selector_target

\* `if len(_line) <= 1: continue`
IsSkipped(_line) == Len(_line) <= 1

\* The loop over file.readlines(): Python indexes from 0, TLA+ from 1.
\* float(_line[9]) is evaluated before float(_line[12]).
RECURSIVE ReadLines(_, _, _)
ReadLines(lines, line_content, data) ==
    IF lines = <<>>
    THEN [status |-> "ok", line_content |-> line_content, data |-> data]
    ELSE LET _line == Head(lines) IN
         IF IsSkipped(_line)
         THEN ReadLines(Tail(lines), line_content, data)
         ELSE IF Len(_line) < data_selector_viewpoint + 1
         THEN [status |-> "IndexError", line_content |-> <<>>, data |-> <<>>]
         ELSE IF ~IsNumeric(_line[data_selector_viewpoint + 1])
         THEN [status |-> "ValueError", line_content |-> <<>>, data |-> <<>>]
         ELSE IF Len(_line) < data_selector_target + 1
         THEN [status |-> "IndexError", line_content |-> <<>>, data |-> <<>>]
         ELSE IF ~IsNumeric(_line[data_selector_target + 1])
         THEN [status |-> "ValueError", line_content |-> <<>>, data |-> <<>>]
         ELSE ReadLines(Tail(lines),
                        Append(line_content, _line),
                        Append(data, <<ParseFloat(_line[data_selector_viewpoint + 1]),
                                       ParseFloat(_line[data_selector_target + 1])>>))

\* header = file.readline() is '' on an empty file and never raises.
readInteractionFile(pInteractionFile) ==
    LET r == ReadLines(pInteractionFile.lines, <<>>, <<>>) IN
    [status |-> r.status, header |-> pInteractionFile.header,
     line_content |-> r.line_content, data |-> r.data]

-----------------------------------------------------------------------------
(* Statistical Decision Engine                                             *)

Table(group1, group2) == <<group1, group2>>

RowSum(t, i) == t[i][1] + t[i][2]
ColSum(t, j) == t[1][j] + t[2][j]
Total(t) == RowSum(t, 1) + RowSum(t, 2)
AnyNegative(t) == \E i \in 1..2 : \E j \in 1..2 : t[i][j] < 0

\* scipy.stats.chi2.ppf(q = 1 - pAlpha, df = 1), in tenths, tabulated to one
\* decimal at the significance levels of the model: 3.8 (3.8415) at 0.05,
\* 2.7 (2.7055) at 0.10, 6.6 (6.6349) at 0.01.
chi2_ppf(pAlpha) ==
    IF pAlpha.num * 20 = pAlpha.den THEN 38
    ELSE IF pAlpha.num * 10 = pAlpha.den THEN 27
    ELSE 66

\* scipy.stats.chi2_contingency(observed, correction=False) on a 2x2 table.
\*   - a negative cell: ValueError;
\*   - expected = rowsum * colsum / total; on the all-zero table this is 0/0,
\*     a NaN in every cell, and NaN == 0 is false, so nothing is raised and
\*     the statistic and the p-value are NaN;
\*   - otherwise an expected frequency of 0 (a zero row or column sum):
\*     ValueError;
\*   - otherwise the Pearson statistic n(ad-bc)^2 / (r1 r2 c1 c2), held as the
\*     fraction num/den (in tenths, like the cells), and p = chi2.sf(statistic)
\*     held by the statistic that determines it.
chi2_contingency(observed) ==
    IF AnyNegative(observed)
    THEN [status |-> "ValueError", chi2 |-> None, p_value |-> None]
    ELSE IF Total(observed) = 0
    THEN [status |-> "ok", chi2 |-> [kind |-> "nan"], p_value |-> [kind |-> "nan"]]
    ELSE IF \E i \in 1..2 : RowSum(observed, i) = 0 \/ ColSum(observed, i) = 0
    THEN [status |-> "ValueError", chi2 |-> None, p_value |-> None]
    ELSE LET det == observed[1][1] * observed[2][2] - observed[1][2] * observed[2][1]
             n == Total(observed) * det * det
             d == RowSum(observed, 1) * RowSum(observed, 2)
                  * ColSum(observed, 1) * ColSum(observed, 2)
         IN [status |-> "ok",
             chi2 |-> [kind |-> "num", num |-> n, den |-> d],
             p_value |-> [kind |-> "chi2sf", num |-> n, den |-> d]]

\* Variant: `chi2 > critical_value`.
Chi2RejectsStrict(chi2, critical_value) ==
    chi2.kind = "num" /\ chi2.num > critical_value * chi2.den

\* `chi2 >= critical_value`; a comparison with NaN is false.
Chi2Rejects(chi2, critical_value) ==
    chi2.kind = "num" /\ chi2.num >= critical_value * chi2.den

\* Appending to test_result, zero_values_counter and the tables handed to
\* scipy for one (group1, group2) of zip(pDataFile1, pDataFile2).
Chi2Row(acc, group1, group2, critical_value) ==
    LET r == chi2_contingency(Table(group1, group2)) IN
    IF r.status = "ok"
    THEN [acc EXCEPT !.test_result =
                        Append(@, IF Chi2Rejects(r.chi2, critical_value)
                                  THEN <<"True", r.p_value>>
                                  ELSE <<"False", r.p_value>>),
                     !.tested = Append(@, Table(group1, group2))]
    ELSE [acc EXCEPT !.test_result = Append(@, <<"None", None>>),
                     !.zero_values_counter = @ + 1,
                     !.tested = Append(@, Table(group1, group2))]

Min(a, b) == IF a <= b THEN a ELSE b

RECURSIVE Chi2Loop(_, _, _, _, _)
Chi2Loop(acc, pDataFile1, pDataFile2, critical_value, i) ==
    IF i > Min(Len(pDataFile1), Len(pDataFile2))
    THEN acc
    ELSE Chi2Loop(Chi2Row(acc, pDataFile1[i], pDataFile2[i], critical_value),
                  pDataFile1, pDataFile2, critical_value, i + 1)

chisquare_test(pDataFile1, pDataFile2, pAlpha) ==
    LET critical_value == chi2_ppf(pAlpha)
        acc == Chi2Loop([test_result |-> <<>>, zero_values_counter |-> 0,
                         tested |-> <<>>],
                        pDataFile1, pDataFile2, critical_value, 1)
    IN [test_result |-> acc.test_result,
        zero_values_counter |-> acc.zero_values_counter,
        tested |-> acc.tested,
        log_info |-> IF acc.zero_values_counter > 0
                     THEN <<acc.zero_values_counter>> ELSE <<>>]

\* Variant: truncation toward zero, as int() would do.
CeilTruncates(v) == IF v >= 0 THEN v \div 10 ELSE -((-v) \div 10)

\* numpy.ceil of a value held in tenths: the least integer >= v/10.
Ceil(v) == -((-v) \div 10)

\* np.ceil([group1, group2])
CeilTable(group1, group2) ==
    <<<<Ceil(group1[1]), Ceil(group1[2])>>, <<Ceil(group2[1]), Ceil(group2[2])>>>>

RECURSIVE Binomial(_, _)
Binomial(n, k) ==
    IF k < 0 \/ k > n THEN 0
    ELSE IF k = 0 THEN 1
    ELSE (Binomial(n - 1, k - 1) * n) \div k

Max(a, b) == IF a >= b THEN a ELSE b

\* The hypergeometric weight of the table with first cell x and the margins of
\* c: its probability is this over Binomial(Total(c), ColSum(c, 1)).
HyperWeight(c, x) ==
    Binomial(RowSum(c, 1), x) * Binomial(RowSum(c, 2), ColSum(c, 1) - x)

RECURSIVE SumWeights(_, _, _)
SumWeights(c, x, hi) ==
    IF x > hi THEN 0
    ELSE (IF HyperWeight(c, x) <= HyperWeight(c, c[1][1])
          THEN HyperWeight(c, x) ELSE 0)
         + SumWeights(c, x + 1, hi)

\* scipy.stats.fisher_exact(table), two-sided, on a 2x2 integer table.
\*   - a negative cell: ValueError;
\*   - a zero row or column sum: returns (nan, 1.0), no exception;
\*   - otherwise the sum of the probabilities of the tables with the same
\*     margins that are no more probable than the observed one, held as the
\*     exact fraction num/den.
fisher_exact(c) ==
    IF AnyNegative(c)
    THEN [status |-> "ValueError", p_value |-> None]
    ELSE IF \E i \in 1..2 : RowSum(c, i) = 0 \/ ColSum(c, i) = 0
    THEN [status |-> "ok", p_value |-> [kind |-> "exact", num |-> 1, den |-> 1]]
    ELSE [status |-> "ok",
          p_value |-> [kind |-> "exact",
                       num |-> SumWeights(c,
                                          Max(0, ColSum(c, 1) - RowSum(c, 2)),
                                          Min(RowSum(c, 1), ColSum(c, 1))),
                       den |-> Binomial(Total(c), ColSum(c, 1))]]

\* `p_value <= pAlpha`
FisherRejects(p_value, pAlpha) ==
    p_value.num * pAlpha.den <= pAlpha.num * p_value.den

FisherRow(acc, group1, group2, pAlpha) ==
    LET r == fisher_exact(CeilTable(group1, group2)) IN
    IF r.status = "ok"
    THEN [acc EXCEPT !.test_result =
                        Append(@, IF FisherRejects(r.p_value, pAlpha)
                                  THEN <<"True", r.p_value>>
                                  ELSE <<"False", r.p_value>>),
                     !.tested = Append(@, CeilTable(group1, group2))]
    ELSE [acc EXCEPT !.test_result = Append(@, <<"None", None>>),
                     !.tested = Append(@, CeilTable(group1, group2))]

RECURSIVE FisherLoop(_, _, _, _, _)
FisherLoop(acc, pDataFile1, pDataFile2, pAlpha, i) ==
    IF i > Min(Len(pDataFile1), Len(pDataFile2))
    THEN acc
    ELSE FisherLoop(FisherRow(acc, pDataFile1[i], pDataFile2[i], pAlpha),
                    pDataFile1, pDataFile2, pAlpha, i + 1)

\* fisher_exact_test keeps no counter and logs nothing.
fisher_exact_test(pDataFile1, pDataFile2, pAlpha) ==
    LET acc == FisherLoop([test_result |-> <<>>, zero_values_counter |-> 0,
                           tested |-> <<>>],
                          pDataFile1, pDataFile2, pAlpha, 1)
    IN [test_result |-> acc.test_result,
        zero_values_counter |-> 0,
        tested |-> acc.tested,
        log_info |-> <<>>]

-----------------------------------------------------------------------------
(* Result Partitioner: the loop of main over enumerate(test_result)        *)

\* Variant: `not result[0]` tested in an `if` of its own, so that a None row
\* lands in non_rejected_h0 and in not_tested.
PartitionRowFalsy(acc, row1, row2, result) ==
    IF result[1] = "True"
    THEN [acc EXCEPT !.rejected_h0 = Append(@, <<row1, row2, result[2]>>)]
    ELSE IF result[1] = "False"
    THEN [acc EXCEPT !.non_rejected_h0 = Append(@, <<row1, row2, result[2]>>)]
    ELSE [acc EXCEPT !.non_rejected_h0 = Append(@, <<row1, row2, result[2]>>),
                     !.not_tested = Append(@, <<row1, row2, None>>)]

\* Variant: insert(0, ...) in place of append.
PartitionRowPrepends(acc, row1, row2, result) ==
    IF result[1] = "True"
    THEN [acc EXCEPT !.rejected_h0 = <<<<row1, row2, result[2]>>>> \o @]
    ELSE IF result[1] = "False"
    THEN [acc EXCEPT !.non_rejected_h0 = <<<<row1, row2, result[2]>>>> \o @]
    ELSE [acc EXCEPT !.not_tested = <<<<row1, row2, None>>>> \o @]

\* One iteration of `for i, result in enumerate(test_result)`.
PartitionRow(acc, row1, row2, result) ==
    IF result[1] = "True"
    THEN [acc EXCEPT !.rejected_h0 = Append(@, <<row1, row2, result[2]>>)]
    ELSE IF result[1] = "False"
    THEN [acc EXCEPT !.non_rejected_h0 = Append(@, <<row1, row2, result[2]>>)]
    ELSE IF result[1] = "None"
    THEN [acc EXCEPT !.not_tested = Append(@, <<row1, row2, None>>)]
    ELSE acc

RECURSIVE PartitionLoop(_, _, _, _, _)
PartitionLoop(acc, lc1, lc2, results, i) ==
    IF i > Len(results)
    THEN acc
    ELSE PartitionLoop(PartitionRow(acc, lc1[i], lc2[i], results[i]),
                       lc1, lc2, results, i + 1)

-----------------------------------------------------------------------------
(* Output paths: args.outFileName.split('.')[0] + suffix                   *)

\* The characters before the first '.', all of them if there is none.
RECURSIVE FirstSegment(_)
FirstSegment(s) ==
    IF s = <<>> \/ Head(s) = "." THEN <<>>
    ELSE <<Head(s)>> \o FirstSegment(Tail(s))

SuffixRejected ==
    <<"_", "r", "e", "j", "e", "c", "t", "e", "d", "_", "H", "0", ".", "b", "e", "d">>
SuffixAccepted ==
    <<"_", "a", "c", "c", "e", "p", "t", "e", "d", "_", "H", "0", ".", "b", "e", "d">>
SuffixNoTest ==
    <<"_", "n", "o", "_", "t", "e", "s", "t", ".", "b", "e", "d">>

DerivedPaths(name) ==
    <<FirstSegment(name) \o SuffixRejected,
      FirstSegment(name) \o SuffixAccepted,
      FirstSegment(name) \o SuffixNoTest>>

-----------------------------------------------------------------------------
(* Report Writer: writeResult                                              *)

\* The quotient and remainder of num * 10^k by den, by long division.
RECURSIVE ScaledDiv(_, _, _)
ScaledDiv(num, den, k) ==
    IF k = 0 THEN <<num \div den, num % den>>
    ELSE LET prev == ScaledDiv(num, den, k - 1) IN
         <<prev[1] * 10 + (prev[2] * 10) \div den, (prev[2] * 10) % den>>

\* format(p, '.5f'): the value in units of 0.00001, rounded to nearest; 'nan'
\* for NaN.  The digits of chi2.sf(statistic) are not computed: the text is
\* held by the statistic that determines it.
Format5f(p) ==
    IF p.kind = "exact"
    THEN LET qr == ScaledDiv(p.num, p.den, 5) IN
         [kind |-> "fixed5",
          units |-> qr[1] + (IF 2 * qr[2] >= p.den THEN 1 ELSE 0)]
    ELSE IF p.kind = "chi2sf"
    THEN [kind |-> "fixed5_chi2sf", num |-> p.num, den |-> p.den]
    ELSE [kind |-> "nan"]

\* Variant: the p-value line written for every triple.
BlockAlwaysPValue(data) ==
    <<<<"fields", data[1]>>, <<"fields", data[2]>>,
      <<"p_value", IF data[3].kind # "None" THEN Format5f(data[3]) ELSE None>>,
      <<"blank", None>>>>

\* One `for data in pData` iteration: the lines it writes.
Block(data) ==
    IF data[3].kind # "None"
    THEN <<<<"fields", data[1]>>, <<"fields", data[2]>>,
           <<"p_value", Format5f(data[3])>>, <<"blank", None>>>>
    ELSE <<<<"fields", data[1]>>, <<"fields", data[2]>>, <<"blank", None>>>>

RECURSIVE Blocks(_)
Blocks(pData) ==
    IF pData = <<>> THEN <<>> ELSE Block(Head(pData)) \o Blocks(Tail(pData))

\* The file's content: what the '#' header block is built from, the first
\* input file's header line, and the lines of the blocks.
writeResult(pData, pRejected, pHeaderOld, pHeaderNew, pViewpoint1, pViewpoint2, pAlpha, pTest) ==
    [explain |-> pRejected, test |-> pTest,
     viewpoints |-> <<pViewpoint1, pViewpoint2>>, alpha |-> pAlpha,
     header |-> pHeaderOld, body |-> Blocks(pData)]

\* Variant: an empty label in place of the IndexError.
RowZeroLabelTolerant(line_content) ==
    IF Len(line_content) = 0
    THEN [status |-> "ok", label |-> <<>>]
    ELSE [status |-> "ok", label |-> SubSeq(line_content[1], 1, 4)]

\* line_content[0][:4], an argument of each writeResult call, evaluated
\* before the call (and so before open()): IndexError on an empty list.
RowZeroLabel(line_content) ==
    IF Len(line_content) = 0
    THEN [status |-> "IndexError", label |-> <<>>]
    ELSE [status |-> "ok", label |-> SubSeq(line_content[1], 1, 4)]

-----------------------------------------------------------------------------
(* main                                                                    *)

Fail(exception) ==
    /\ pc' = "failed"
    /\ err' = exception

\* header1, line_content1, data1 = readInteractionFile(args.interactionFile[0])
ReadA ==
    /\ pc = "readA"
    /\ LET r == readInteractionFile(fileA) IN
       IF r.status = "ok"
       THEN /\ header1' = r.header
            /\ line_content1' = r.line_content
            /\ data1' = r.data
            /\ pc' = "readB"
            /\ err' = err
       ELSE /\ Fail(r.status)
            /\ UNCHANGED <<header1, line_content1, data1>>
    /\ UNCHANGED <<statisticTest, alpha, outFileName, fileA, fileB,
                   header2, line_content2, data2,
                   test_result, zero_values_counter, log_info, tested,
                   rejected_h0, non_rejected_h0, not_tested, outPaths, fs>>

\* header2, line_content2, data2 = readInteractionFile(args.interactionFile[1])
ReadB ==
    /\ pc = "readB"
    /\ LET r == readInteractionFile(fileB) IN
       IF r.status = "ok"
       THEN /\ header2' = r.header
            /\ line_content2' = r.line_content
            /\ data2' = r.data
            /\ pc' = "test"
            /\ err' = err
       ELSE /\ Fail(r.status)
            /\ UNCHANGED <<header2, line_content2, data2>>
    /\ UNCHANGED <<statisticTest, alpha, outFileName, fileA, fileB,
                   header1, line_content1, data1,
                   test_result, zero_values_counter, log_info, tested,
                   rejected_h0, non_rejected_h0, not_tested, outPaths, fs>>

\* test_result = chisquare_test(...) or fisher_exact_test(...): the whole call.
RunTest ==
    /\ pc = "test"
    /\ LET r == IF statisticTest = "chi2"
                THEN chisquare_test(data1, data2, alpha)
                ELSE fisher_exact_test(data1, data2, alpha)
       IN /\ test_result' = r.test_result
          /\ zero_values_counter' = r.zero_values_counter
          /\ log_info' = log_info \o r.log_info
          /\ tested' = r.tested
    /\ pc' = "partition"
    /\ UNCHANGED <<statisticTest, alpha, outFileName, fileA, fileB, err,
                   header1, line_content1, data1, header2, line_content2, data2,
                   rejected_h0, non_rejected_h0, not_tested, outPaths, fs>>

\* The three buckets and the loop that fills them.
Partition ==
    /\ pc = "partition"
    /\ LET acc == PartitionLoop([rejected_h0 |-> <<>>, non_rejected_h0 |-> <<>>,
                                 not_tested |-> <<>>],
                                line_content1, line_content2, test_result, 1)
       IN /\ rejected_h0' = acc.rejected_h0
          /\ non_rejected_h0' = acc.non_rejected_h0
          /\ not_tested' = acc.not_tested
    /\ pc' = "paths"
    /\ UNCHANGED <<statisticTest, alpha, outFileName, fileA, fileB, err,
                   header1, line_content1, data1, header2, line_content2, data2,
                   test_result, zero_values_counter, log_info, tested,
                   outPaths, fs>>

\* outFileName = args.outFileName.split('.') and the three names built on it.
DerivePaths ==
    /\ pc = "paths"
    /\ outPaths' = DerivedPaths(outFileName)
    /\ pc' = "write1"
    /\ UNCHANGED <<statisticTest, alpha, outFileName, fileA, fileB, err,
                   header1, line_content1, data1, header2, line_content2, data2,
                   test_result, zero_values_counter, log_info, tested,
                   rejected_h0, non_rejected_h0, not_tested, fs>>

Bucket(k) ==
    IF k = 1 THEN rejected_h0 ELSE IF k = 2 THEN non_rejected_h0 ELSE not_tested

Tag(k) == IF k = 1 THEN "True" ELSE IF k = 2 THEN "False" ELSE "None"

\* open(pOutFileName, 'w') creates the file or replaces its content.
Create(files, path, content) ==
    {f \in files : f.path # path} \cup {[path |-> path, content |-> content]}

\* The k-th writeResult call of main: its arguments are evaluated first.
Write(k) ==
    /\ pc = <<"write1", "write2", "write3">>[k]
    /\ LET v1 == RowZeroLabel(line_content1)
           v2 == RowZeroLabel(line_content2)
       IN IF v1.status # "ok"
          THEN Fail(v1.status) /\ fs' = fs
          ELSE IF v2.status # "ok"
          THEN Fail(v2.status) /\ fs' = fs
          ELSE /\ fs' = Create(fs, outPaths[k],
                               writeResult(Bucket(k), Tag(k), header1, header2,
                                           v1.label, v2.label, alpha, statisticTest))
               /\ pc' = <<"write2", "write3", "done">>[k]
               /\ err' = err
    /\ UNCHANGED <<statisticTest, alpha, outFileName, fileA, fileB,
                   header1, line_content1, data1, header2, line_content2, data2,
                   test_result, zero_values_counter, log_info, tested,
                   rejected_h0, non_rejected_h0, not_tested, outPaths>>

-----------------------------------------------------------------------------
(* Inputs                                                                  *)

AlphaLevels == {[num |-> 1, den |-> 20], [num |-> 1, den |-> 10]}

\* (viewpoint, target) pairs in tenths.
PipelineRowsA == {<<30, 0>>, <<12, 12>>}
PipelineRowsB == {<<0, 30>>, <<-10, 5>>, <<0, 0>>}

EngineRowsA == {<<0, 0>>, <<30, 0>>, <<12, 12>>}
EngineRowsB == {<<0, 0>>, <<0, 30>>, <<0, 8>>, <<-10, 5>>, <<108, 11>>, <<50, 50>>}

\* The k-th line of a file whose fields 9 and 12 hold the pair: 13 fields, the
\* first one naming the line.
DataLine(k, pair) ==
    [i \in 1..13 |-> IF i = 1 THEN <<"txt", k>>
                     ELSE IF i = data_selector_viewpoint + 1 THEN <<"num", pair[1]>>
                     ELSE IF i = data_selector_target + 1 THEN <<"num", pair[2]>>
                     ELSE <<"txt", 0>>]

\* A line of whitespace: one empty field.
BlankLine == <<<<"txt", 0>>>>

\* Five fields: no field 9.
ShortLine(k) == [i \in 1..5 |-> <<"txt", IF i = 1 THEN k ELSE 0>>]

\* Thirteen fields, a number in field 9 and text in field 12.
BadNumberLine(k) ==
    [i \in 1..13 |-> IF i = 1 THEN <<"txt", k>>
                     ELSE IF i = data_selector_viewpoint + 1 THEN <<"num", 10>>
                     ELSE <<"txt", 0>>]

LineChoices(k, rows) ==
    {BlankLine, ShortLine(k), BadNumberLine(k)} \cup {DataLine(k, pair) : pair \in rows}

\* The files' bodies of exactly m lines, the k-th one of LineChoices(k, rows).
RECURSIVE LinesOfLen(_, _)
LinesOfLen(m, rows) ==
    IF m = 0 THEN {<<>>}
    ELSE {Append(s, x) : s \in LinesOfLen(m - 1, rows), x \in LineChoices(m, rows)}

\* An empty file (readline() returns '') or a header line and up to MaxLines
\* further lines.
Files(header, rows) ==
    {[header |-> "", lines |-> <<>>]}
    \cup {[header |-> header, lines |-> ls] :
            ls \in UNION {LinesOfLen(m, rows) : m \in 0..MaxLines}}

PipelineNames == {<<"o", "u", "t", ".", "b", "e", "d">>}

NameChars == {"o", ".", "/"}

InitLocals ==
    /\ err = "none"
    /\ header1 = "" /\ line_content1 = <<>> /\ data1 = <<>>
    /\ header2 = "" /\ line_content2 = <<>> /\ data2 = <<>>
    /\ test_result = <<>>
    /\ zero_values_counter = 0
    /\ log_info = <<>>
    /\ tested = <<>>
    /\ rejected_h0 = <<>> /\ non_rejected_h0 = <<>> /\ not_tested = <<>>
    /\ outPaths = <<>>
    /\ fs = {}

Init ==
    /\ statisticTest \in {"fisher", "chi2"}
    /\ alpha \in AlphaLevels
    /\ outFileName \in PipelineNames
    /\ fileA \in Files("headerA", PipelineRowsA)
    /\ fileB \in Files("headerB", PipelineRowsB)
    /\ pc = "readA"
    /\ InitLocals

Next ==
    \/ ReadA
    \/ ReadB
    \/ RunTest
    \/ Partition
    \/ DerivePaths
    \/ \E k \in 1..3 : Write(k)

Spec == Init /\ [][Next]_vars

-----------------------------------------------------------------------------
(* The decision engine alone: the two lists handed to chisquare_test or    *)
(* fisher_exact_test are drawn directly, unequal lengths included.         *)

RECURSIVE RowsOfLen(_, _)
RowsOfLen(m, rows) ==
    IF m = 0 THEN {<<>>}
    ELSE {Append(s, x) : s \in RowsOfLen(m - 1, rows), x \in rows}

NoFile == [header |-> "", lines |-> <<>>]

InitTest ==
    /\ statisticTest \in {"fisher", "chi2"}
    /\ alpha \in AlphaLevels
    /\ outFileName \in PipelineNames
    /\ fileA = NoFile /\ fileB = NoFile
    /\ pc = "test"
    /\ err = "none"
    /\ header1 = "" /\ line_content1 = <<>>
    /\ header2 = "" /\ line_content2 = <<>>
    /\ data1 \in UNION {RowsOfLen(m, EngineRowsA) : m \in 0..MaxRows}
    /\ data2 \in UNION {RowsOfLen(m, EngineRowsB) : m \in 0..MaxRows}
    /\ test_result = <<>>
    /\ zero_values_counter = 0
    /\ log_info = <<>>
    /\ tested = <<>>
    /\ rejected_h0 = <<>> /\ non_rejected_h0 = <<>> /\ not_tested = <<>>
    /\ outPaths = <<>>
    /\ fs = {}

NextTest == RunTest

SpecTest == InitTest /\ [][NextTest]_vars

-----------------------------------------------------------------------------
(* The path derivation alone, over every short outFileName.                *)

RECURSIVE NamesOfLen(_)
NamesOfLen(m) ==
    IF m = 0 THEN {<<>>}
    ELSE {Append(s, c) : s \in NamesOfLen(m - 1), c \in NameChars}

InitPaths ==
    /\ statisticTest \in {"fisher", "chi2"}
    /\ alpha \in AlphaLevels
    /\ outFileName \in UNION {NamesOfLen(m) : m \in 1..MaxNameLen}
    /\ fileA = NoFile /\ fileB = NoFile
    /\ pc = "paths"
    /\ InitLocals

NextPaths == DerivePaths

SpecPaths == InitPaths /\ [][NextPaths]_vars

-----------------------------------------------------------------------------
(* Properties                                                              *)

\* main is past its partition loop and has not failed.
Partitioned == pc \in {"paths", "write1", "write2", "write3", "done"}

BucketAt(k) ==
    IF k = 1 THEN rejected_h0 ELSE IF k = 2 THEN non_rejected_h0 ELSE not_tested

VerdictBucket(flag) == IF flag = "True" THEN 1 ELSE IF flag = "False" THEN 2 ELSE 3

\* The places <<bucket, position>> whose triple holds data row i of both files.
Occurrences(i) ==
    {kj \in (1..3) \X (1..Len(line_content1)) :
        /\ kj[2] <= Len(BucketAt(kj[1]))
        /\ BucketAt(kj[1])[kj[2]][1] = line_content1[i]
        /\ BucketAt(kj[1])[kj[2]][2] = line_content2[i]}

\* C1: with the same number N of data rows in both inputs, under either
\* strategy, every row index has exactly one verdict of Rejected, Accepted,
\* Untested, and after the partition loop the three buckets hold exactly N
\* triples: each row index is in exactly one bucket, the one of its verdict.
C1_PartitionIsExact ==
    (Partitioned /\ Len(line_content1) = Len(line_content2)) =>
        LET N == Len(line_content1) IN
        /\ Len(test_result) = N
        /\ \A i \in 1..N : test_result[i][1] \in {"True", "False", "None"}
        /\ Len(rejected_h0) + Len(non_rejected_h0) + Len(not_tested) = N
        /\ \A i \in 1..N :
              /\ Cardinality(Occurrences(i)) = 1
              /\ \A kj \in Occurrences(i) : kj[1] = VerdictBucket(test_result[i][1])

C1_Witness ==
    /\ pc = "done"
    /\ Len(line_content1) = 2 /\ Len(line_content2) = 2
    /\ Len(rejected_h0) = 1 /\ Len(not_tested) = 1

\* The data row index a triple was built from (0 if there is none).
RowIndexOf(triple) ==
    IF \E i \in 1..Len(test_result) : line_content1[i] = triple[1]
    THEN CHOOSE i \in 1..Len(test_result) : line_content1[i] = triple[1]
    ELSE 0

\* C2: the partition is stable: within each bucket the triples are in strictly
\* increasing order of their row index i, and each triple is row i of file A,
\* row i of file B and the p-value of verdict i (None for an untested row).
C2_PartitionIsStable ==
    Partitioned =>
        \A k \in 1..3 :
            /\ \A j \in 1..Len(BucketAt(k)) :
                  LET t == BucketAt(k)[j]
                      i == RowIndexOf(t)
                  IN /\ i > 0
                     /\ t[1] = line_content1[i]
                     /\ t[2] = line_content2[i]
                     /\ test_result[i][1] = Tag(k)
                     /\ t[3] = test_result[i][2]
                     /\ (k = 3) = (t[3] = None)
            /\ \A j1, j2 \in 1..Len(BucketAt(k)) :
                  j1 < j2 => RowIndexOf(BucketAt(k)[j1]) < RowIndexOf(BucketAt(k)[j2])

C2_Witness ==
    /\ pc = "done"
    /\ \E k \in 1..2 : Len(BucketAt(k)) = 2

\* The file main created at the k-th output path.
OutFile(k) == CHOOSE f \in fs : f.path = outPaths[k]

\* The non-blank lines of a file's blocks.
BlockLines(k, kinds) ==
    Cardinality({j \in 1..Len(OutFile(k).content.body) :
                    OutFile(k).content.body[j][1] \in kinds})

Tested == {i \in 1..Len(test_result) : test_result[i][1] # "None"}

\* C6: for N paired rows the three output files hold, in their blocks,
\* 2*N + (number of rows not Untested) non-blank lines: every block has the
\* record-A line and the record-B line, a p-value line is written exactly for
\* the triples that carry a p-value, and those are the Rejected and Accepted
\* ones.
C6_BlockLineCount ==
    pc = "done" =>
        LET N == Len(test_result) IN
        /\ \A k \in 1..3 : \E f \in fs : f.path = outPaths[k]
        /\ BlockLines(1, {"fields", "p_value"}) + BlockLines(2, {"fields", "p_value"})
             + BlockLines(3, {"fields", "p_value"}) = 2 * N + Cardinality(Tested)
        /\ \A k \in 1..3 :
              /\ BlockLines(k, {"fields"}) = 2 * Len(BucketAt(k))
              /\ BlockLines(k, {"p_value"}) = IF k = 3 THEN 0 ELSE Len(BucketAt(k))
              /\ BlockLines(k, {"blank"}) = Len(BucketAt(k))
        /\ \A i \in 1..N : (test_result[i][2] # None) = (i \in Tested)

C6_Witness ==
    /\ pc = "done"
    /\ Len(test_result) = 2
    /\ Len(not_tested) = 1
    /\ Cardinality(Tested) = 1
    /\ BlockLines(3, {"fields"}) = 2

\* A line the reader does not skip and cannot parse: fewer than 13 fields, or
\* no number in field 9 or in field 12.
Malformed(line) ==
    /\ Len(line) > 1
    /\ \/ Len(line) < 13
       \/ line[10][1] # "num"
       \/ line[13][1] # "num"

HasParseError(file) == \E j \in 1..Len(file.lines) : Malformed(file.lines[j])

DataLines(file) == {j \in 1..Len(file.lines) : Len(file.lines[j]) > 1}

\* C7: a parse error in either input file is fatal and leaves no output: no
\* test runs and no output file exists unless both files were read whole, every
\* non-blank line of them kept as a row; with a malformed line in file A or
\* file B main never gets past reading, and ends in IndexError or ValueError.
C7_ParseErrorIsFatal ==
    /\ (pc \notin {"readA", "readB", "failed"} \/ tested # <<>> \/ fs # {}) =>
          /\ ~HasParseError(fileA) /\ ~HasParseError(fileB)
          /\ Len(line_content1) = Cardinality(DataLines(fileA))
          /\ Len(line_content2) = Cardinality(DataLines(fileB))
          /\ Len(data1) = Len(line_content1) /\ Len(data2) = Len(line_content2)
    /\ HasParseError(fileA) =>
          /\ pc \in {"readA", "failed"}
          /\ pc = "failed" => err \in {"IndexError", "ValueError"}
          /\ fs = {} /\ tested = <<>>
    /\ HasParseError(fileB) =>
          /\ pc \in {"readA", "readB", "failed"}
          /\ pc = "failed" => err \in {"IndexError", "ValueError"}
          /\ fs = {} /\ tested = <<>>

C7_Witness ==
    /\ pc = "failed"
    /\ ~HasParseError(fileA) /\ HasParseError(fileB)
    /\ Len(line_content1) = 2
    /\ Len(fileB.lines) = 2 /\ ~Malformed(fileB.lines[1])
    /\ err = "ValueError"
    /\ fs = {}

NoDataRow(file) == DataLines(file) = {}

\* C10: an input file that is empty, or holds no data row, is fatal: main does
\* not complete and creates no output file.  Reading such a file does not
\* fail; main fails with IndexError when it takes the region label from row 0,
\* after the tests, the partition and the path derivation.
C10_EmptyInputIsFatal ==
    (NoDataRow(fileA) \/ NoDataRow(fileB)) =>
        /\ pc \notin {"write2", "write3", "done"}
        /\ fs = {}
        /\ (~HasParseError(fileA) /\ ~HasParseError(fileB) /\ pc = "failed") =>
              /\ err = "IndexError"
              /\ outPaths # <<>>

C10_Witness ==
    /\ pc = "failed"
    /\ fileB = [header |-> "", lines |-> <<>>]
    /\ Len(line_content1) = 2
    /\ err = "IndexError"
    /\ outPaths # <<>>
    /\ fs = {}

\* The decision pass has returned.
TestDone == pc = "partition"

Pairs == 1..Min(Len(data1), Len(data2))

C5_FisherBoundaryReached ==
    /\ TestDone
    /\ statisticTest = "fisher"
    /\ \E i \in Tested :
          /\ test_result[i][2].num * alpha.den = alpha.num * test_result[i][2].den
          /\ test_result[i][1] = "True"

\* C9: Fisher tests the table of the four cell values each rounded UP to the
\* nearest integer: the least integer not below the value (values are in
\* tenths), so an integer value is unchanged; (1.2, 1.2) and (10.8, 1.1) are
\* tested as [[2,2],[11,2]].  chi2 tests the values as they are.
C9_FisherRoundsUp ==
    TestDone =>
        /\ Len(tested) = Cardinality(Pairs)
        /\ \A i \in Pairs :
              LET raw == <<data1[i], data2[i]>> IN
              IF statisticTest = "fisher"
              THEN /\ \A r \in 1..2 : \A c \in 1..2 :
                         /\ tested[i][r][c] * 10 >= raw[r][c]
                         /\ tested[i][r][c] * 10 - raw[r][c] < 10
                   /\ (raw = <<<<12, 12>>, <<108, 11>>>>) =>
                         (tested[i] = <<<<2, 2>>, <<11, 2>>>>)
                   /\ test_result[i][2] = fisher_exact(tested[i]).p_value
              ELSE /\ tested[i] = raw
                   /\ test_result[i][2] = chi2_contingency(raw).p_value

C9_Witness ==
    /\ TestDone
    /\ statisticTest = "fisher"
    /\ \E i \in Pairs :
          /\ data1[i] = <<12, 12>> /\ data2[i] = <<108, 11>>
          /\ tested[i] = <<<<2, 2>>, <<11, 2>>>>
          /\ test_result[i][2] = [kind |-> "exact", num |-> 521, den |-> 2380]

\* A table with a row or a column that sums to zero.
ZeroMargin(t) == \E i \in 1..2 : RowSum(t, i) = 0 \/ ColSum(t, i) = 0

Untested == {i \in 1..Len(test_result) : test_result[i][1] = "None"}

\* C3: in the chi2 strategy a row whose table is degenerate is Untested with
\* no p-value and counts once in the skip counter; when chisquare_test
\* returns, the counter is the number of Untested verdicts, there is one
\* verdict per row, and the diagnostic is emitted iff the counter is nonzero.
C3_Chi2DegenerateIsUntested ==
    (TestDone /\ statisticTest = "chi2") =>
        /\ Len(test_result) = Cardinality(Pairs)
        /\ \A i \in Pairs :
              ZeroMargin(<<data1[i], data2[i]>>) => test_result[i] = <<"None", None>>
        /\ zero_values_counter = Cardinality(Untested)
        /\ (log_info # <<>>) = (zero_values_counter > 0)

\* What does hold of chisquare_test: the counter, the list length and the
\* diagnostic; a row is Untested exactly when it has a negative cell or a zero
\* margin with a nonzero total.
C3_Chi2Bookkeeping ==
    (TestDone /\ statisticTest = "chi2") =>
        /\ Len(test_result) = Cardinality(Pairs)
        /\ zero_values_counter = Cardinality(Untested)
        /\ (log_info # <<>>) = (zero_values_counter > 0)
        /\ \A i \in Pairs :
              LET t == <<data1[i], data2[i]>> IN
              (i \in Untested) = (AnyNegative(t) \/ (ZeroMargin(t) /\ Total(t) # 0))

\* C4: in the Fisher strategy a row whose ceiling-rounded table has an
\* all-zero row or column is Untested with no p-value, never Accepted or
\* Rejected.
C4_FisherDegenerateIsUntested ==
    (TestDone /\ statisticTest = "fisher") =>
        \A i \in Pairs :
            ZeroMargin(tested[i]) => test_result[i] = <<"None", None>>

\* outFileName without its last '.'-delimited segment; all of it if it has no
\* '.'.
RECURSIVE StripLastSegment(_)
StripLastSegment(s) ==
    IF \A j \in 1..Len(s) : s[j] # "." THEN s
    ELSE IF s[Len(s)] = "." THEN SubSeq(s, 1, Len(s) - 1)
    ELSE StripLastSegment(SubSeq(s, 1, Len(s) - 1))

\* C8: the three output paths are {base}_rejected_H0.bed,
\* {base}_accepted_H0.bed and {base}_no_test.bed, {base} being outFileName
\* with its last '.'-delimited extension segment removed.
C8_PathsStripLastExtension ==
    pc = "write1" =>
        outPaths = <<StripLastSegment(outFileName) \o SuffixRejected,
                     StripLastSegment(outFileName) \o SuffixAccepted,
                     StripLastSegment(outFileName) \o SuffixNoTest>>

=============================================================================
